---- MODULE Spec2Model ----
(***************************************************************************)
(* Stacking-context classification and z-index ordering of dom-to-svg      *)
(* (src/src/stacking.ts).                                                  *)
(*                                                                         *)
(* Strings whose content the code inspects are sequences of characters     *)
(* (z-index, opacity, data-z-index) or of tokens (will-change: property    *)
(* names, "," and " ").  Other style values are compared whole and are     *)
(* plain strings.                                                          *)
(***************************************************************************)
EXTENDS Integers, Sequences, FiniteSets

VARIABLES
    el,       \* the node handed to the stacking predicate / layer classifier
    esc,      \* outcome of establishesStackingContext(el): kind "none" before the call
    layer,    \* outcome of determineStackingLayer(el): kind "none" before the call
    layers,   \* a StackingLayers: layer name -> the children of its <g>, in order
    before,   \* the children of every layer when the sort was called
    sorting   \* the sort call made on layers and how it ended

vars == <<el, esc, layer, layers, before, sorting>>

\* Number of style properties, among those that trigger a stacking context on
\* their own, that differ from their initial value on one element.
MaxTriggers == 1

\* Number of children appended to the layers of one stacking context.
MaxChildren == 4

----------------------------------------------------------------------------
(* Characters and number parsing                                           *)

DigitChars == {"0", "1", "2", "3", "4", "5", "6", "7", "8", "9"}

DigitVal(c) ==
    CASE c = "0" -> 0 [] c = "1" -> 1 [] c = "2" -> 2 [] c = "3" -> 3
      [] c = "4" -> 4 [] c = "5" -> 5 [] c = "6" -> 6 [] c = "7" -> 7
      [] c = "8" -> 8 [] c = "9" -> 9

\* Index of the first character of s at or after i that is not white space.
RECURSIVE SkipSpace(_, _)
SkipSpace(s, i) ==
    IF i <= Len(s) /\ s[i] = " " THEN SkipSpace(s, i + 1) ELSE i

\* Index just after the run of digits of s that starts at i.
RECURSIVE DigitsEnd(_, _)
DigitsEnd(s, i) ==
    IF i <= Len(s) /\ s[i] \in DigitChars THEN DigitsEnd(s, i + 1) ELSE i

\* Value of the digits s[i..j-1] read in base 10 (0 for the empty run).
RECURSIVE DigitsValue(_, _, _)
DigitsValue(s, i, j) ==
    IF j <= i THEN 0 ELSE 10 * DigitsValue(s, i, j - 1) + DigitVal(s[j - 1])

RECURSIVE Pow10(_)
Pow10(k) == IF k = 0 THEN 1 ELSE 10 * Pow10(k - 1)

NaN == [kind |-> "nan", val |-> 0]
Num(n) == [kind |-> "num", val |-> n]

\* parseInt(s, 10): leading white space, an optional sign, then the longest
\* run of digits; NaN when there is no digit.  Whatever follows is ignored.
parseInt(s) ==
    LET i == SkipSpace(s, 1)
        neg == i <= Len(s) /\ s[i] = "-"
        j == IF i <= Len(s) /\ s[i] \in {"-", "+"} THEN i + 1 ELSE i
        k == DigitsEnd(s, j)
    IN IF k = j THEN NaN
       ELSE Num(IF neg THEN 0 - DigitsValue(s, j, k) ELSE DigitsValue(s, j, k))

\* parseFloat(s) for decimal literals without exponent: the value is
\* mant / 10^scale; NaN when there is no digit.
parseFloat(s) ==
    LET i == SkipSpace(s, 1)
        neg == i <= Len(s) /\ s[i] = "-"
        j == IF i <= Len(s) /\ s[i] \in {"-", "+"} THEN i + 1 ELSE i
        k == DigitsEnd(s, j)
        f == IF k <= Len(s) /\ s[k] = "." THEN k + 1 ELSE k
        m == DigitsEnd(s, f)
        scale == m - f
        mag == DigitsValue(s, j, k) * Pow10(scale) + DigitsValue(s, f, m)
    IN IF k = j /\ m = f THEN [kind |-> "nan", mant |-> 0, scale |-> 0]
       ELSE [kind |-> "num", mant |-> IF neg THEN 0 - mag ELSE mag, scale |-> scale]

\* parseFloat(s) !== 1
FloatIsNotOne(x) == x.kind = "nan" \/ x.mant # Pow10(x.scale)

----------------------------------------------------------------------------
(* will-change: String.split(','), String.trim, Set.has                    *)

\* The segments of s between the "," tokens.
RECURSIVE Split(_, _)
Split(s, cur) ==
    IF s = <<>> THEN <<cur>>
    ELSE IF Head(s) = "," THEN <<cur>> \o Split(Tail(s), <<>>)
    ELSE Split(Tail(s), Append(cur, Head(s)))

RECURSIVE TrimLeft(_)
TrimLeft(s) == IF s # <<>> /\ Head(s) = " " THEN TrimLeft(Tail(s)) ELSE s

RECURSIVE TrimRight(_)
TrimRight(s) ==
    IF s # <<>> /\ s[Len(s)] = " " THEN TrimRight(SubSeq(s, 1, Len(s) - 1)) ELSE s

Trim(s) == TrimRight(TrimLeft(s))

stackingContextEstablishingProperties ==
    { "clipPath", "contain", "filter", "isolation", "mask", "maskBorder",
      "maskImage", "mixBlendMode", "opacity", "perspective", "position",
      "transform", "webkitOverflowScrolling", "zIndex" }

\* Set.has(property.trim()): the trimmed segment is one name of the set.
HasProperty(segment) ==
    LET t == Trim(segment)
    IN Len(t) = 1 /\ t[1] \in stackingContextEstablishingProperties

\* styles.willChange && styles.willChange.split(',').some(...)
WillChangeSome(willChange) ==
    /\ willChange # <<>>
    /\ LET parts == Split(willChange, <<>>)
       IN \E i \in 1..Len(parts) : HasProperty(parts[i])

----------------------------------------------------------------------------
(* Nodes and computed styles                                               *)

\* Value of el.parentElement when the node has no parent element; otherwise
\* the field holds the computed display of the parent element.
NoParent == "null"

DefaultStyles ==
    [ position |-> "static", zIndex |-> <<"a", "u", "t", "o">>,
      display |-> "block", float |-> "none",
      opacity |-> <<"1">>, mixBlendMode |-> "normal", transform |-> "none",
      filter |-> "none", perspective |-> "none", clipPath |-> "none",
      mask |-> "none", maskImage |-> "none", maskBorder |-> "none",
      isolation |-> "auto", webkitOverflowScrolling |-> "auto",
      contain |-> "none", willChange |-> <<"auto">> ]

Outcome(kind, value) == [kind |-> kind, value |-> value]

\* EstablishesExpression with the position === 'sticky' operand left out.
EstablishesExpressionWithoutSticky(styles, parentElement) ==
    \/ (styles.position = "absolute" \/ styles.position = "relative")
         /\ styles.zIndex # <<"a", "u", "t", "o">>
    \/ styles.position = "fixed"
    \/ /\ parentElement # NoParent
       /\ (parentElement = "flex" \/ parentElement = "grid")
       /\ styles.zIndex # <<"a", "u", "t", "o">>
    \/ FloatIsNotOne(parseFloat(styles.opacity))
    \/ styles.mixBlendMode # "normal"
    \/ styles.transform # "none"
    \/ styles.filter # "none"
    \/ styles.perspective # "none"
    \/ styles.clipPath # "none"
    \/ styles.mask # "none"
    \/ styles.maskImage # "none"
    \/ styles.maskBorder # "none"
    \/ styles.isolation = "isolate"
    \/ styles.webkitOverflowScrolling = "touch"
    \/ styles.contain = "layout"
    \/ styles.contain = "paint"
    \/ styles.contain = "strict"
    \/ styles.contain = "content"
    \/ WillChangeSome(styles.willChange)

\* The returned expression of establishesStackingContext (lines 43-67).
EstablishesExpression(styles, parentElement) ==
    \/ (styles.position = "absolute" \/ styles.position = "relative")
         /\ styles.zIndex # <<"a", "u", "t", "o">>
    \/ styles.position = "fixed"
    \/ styles.position = "sticky"
    \/ /\ parentElement # NoParent
       /\ (parentElement = "flex" \/ parentElement = "grid")
       /\ styles.zIndex # <<"a", "u", "t", "o">>
    \/ FloatIsNotOne(parseFloat(styles.opacity))
    \/ styles.mixBlendMode # "normal"
    \/ styles.transform # "none"
    \/ styles.filter # "none"
    \/ styles.perspective # "none"
    \/ styles.clipPath # "none"
    \/ styles.mask # "none"
    \/ styles.maskImage # "none"
    \/ styles.maskBorder # "none"
    \/ styles.isolation = "isolate"
    \/ styles.webkitOverflowScrolling = "touch"
    \/ styles.contain = "layout"
    \/ styles.contain = "paint"
    \/ styles.contain = "strict"
    \/ styles.contain = "content"
    \/ WillChangeSome(styles.willChange)

establishesStackingContext(node) ==
    IF ~node.hasDefaultView
    THEN Outcome("throw", "Node's ownerDocument has no defaultView")
    ELSE IF ~node.isElement THEN Outcome("return", "false")
    ELSE IF EstablishesExpression(node.styles, node.parentElement)
         THEN Outcome("return", "true")
         ELSE Outcome("return", "false")

\* The three predicates of ./common that the classifier imports.
isPositioned(styles) ==
    styles.position \in {"relative", "absolute", "fixed", "sticky"}

isInline(styles) ==
    styles.display \in {"inline", "inline-block", "inline-table"}

isInFlow(element, styles) ==
    /\ styles.float = "none"
    /\ styles.position \notin {"absolute", "fixed"}
    /\ element.parentElement # NoParent

rootBackgroundAndBorders == "rootBackgroundAndBorders"
childStackingContextsWithNegativeStackLevels ==
    "childStackingContextsWithNegativeStackLevels"
inFlowNonInlineNonPositionedDescendants ==
    "inFlowNonInlineNonPositionedDescendants"
nonPositionedFloats == "nonPositionedFloats"
inFlowInlineLevelNonPositionedDescendants ==
    "inFlowInlineLevelNonPositionedDescendants"
childStackingContextsWithStackLevelZeroAndPositionedDescendantsWithStackLevelZero ==
    "childStackingContextsWithStackLevelZeroAndPositionedDescendantsWithStackLevelZero"
childStackingContextsWithPositiveStackLevels ==
    "childStackingContextsWithPositiveStackLevels"

\* keyof StackingLayers, in declaration order (the paint order).
StackingLayers ==
    << rootBackgroundAndBorders,
       childStackingContextsWithNegativeStackLevels,
       inFlowNonInlineNonPositionedDescendants,
       nonPositionedFloats,
       inFlowInlineLevelNonPositionedDescendants,
       childStackingContextsWithStackLevelZeroAndPositionedDescendantsWithStackLevelZero,
       childStackingContextsWithPositiveStackLevels >>

\* const zIndex = styles.zIndex !== 'auto' ? parseInt(styles.zIndex, 10) : undefined
ZIndexOf(styles) ==
    IF styles.zIndex # <<"a", "u", "t", "o">>
    THEN parseInt(styles.zIndex)
    ELSE [kind |-> "undefined", val |-> 0]

\* determineStackingLayer with the !isPositioned(styles) operand left out of
\* the two in-flow rules.
determineStackingLayerInFlowOnly(element) ==
    IF ~element.hasDefaultView
    THEN Outcome("throw", "Element's ownerDocument has no defaultView")
    ELSE
    LET styles == element.styles
        zIndex == ZIndexOf(styles)
        establishes == establishesStackingContext(element).value = "true"
    IN IF zIndex.kind = "num" /\ zIndex.val < 0 /\ establishes
       THEN Outcome("return", childStackingContextsWithNegativeStackLevels)
       ELSE IF isInFlow(element, styles) /\ ~isInline(styles)
       THEN Outcome("return", inFlowNonInlineNonPositionedDescendants)
       ELSE IF ~isPositioned(styles) /\ styles.float # "none"
       THEN Outcome("return", nonPositionedFloats)
       ELSE IF isInFlow(element, styles) /\ isInline(styles)
       THEN Outcome("return", inFlowInlineLevelNonPositionedDescendants)
       ELSE IF zIndex.kind = "num" /\ zIndex.val = 0
               /\ (isPositioned(styles) \/ establishes)
       THEN Outcome("return",
                childStackingContextsWithStackLevelZeroAndPositionedDescendantsWithStackLevelZero)
       ELSE IF zIndex.kind = "num" /\ zIndex.val > 0 /\ establishes
       THEN Outcome("return", childStackingContextsWithPositiveStackLevels)
       ELSE Outcome("throw", "Did not find appropiate stacking layer")

determineStackingLayer(element) ==
    IF ~element.hasDefaultView
    THEN Outcome("throw", "Element's ownerDocument has no defaultView")
    ELSE
    LET styles == element.styles
        zIndex == ZIndexOf(styles)
        establishes == establishesStackingContext(element).value = "true"
    IN IF zIndex.kind = "num" /\ zIndex.val < 0 /\ establishes
       THEN Outcome("return", childStackingContextsWithNegativeStackLevels)
       ELSE IF isInFlow(element, styles) /\ ~isInline(styles) /\ ~isPositioned(styles)
       THEN Outcome("return", inFlowNonInlineNonPositionedDescendants)
       ELSE IF ~isPositioned(styles) /\ styles.float # "none"
       THEN Outcome("return", nonPositionedFloats)
       ELSE IF isInFlow(element, styles) /\ isInline(styles) /\ ~isPositioned(styles)
       THEN Outcome("return", inFlowInlineLevelNonPositionedDescendants)
       ELSE IF zIndex.kind = "num" /\ zIndex.val = 0
               /\ (isPositioned(styles) \/ establishes)
       THEN Outcome("return",
                childStackingContextsWithStackLevelZeroAndPositionedDescendantsWithStackLevelZero)
       ELSE IF zIndex.kind = "num" /\ zIndex.val > 0 /\ establishes
       THEN Outcome("return", childStackingContextsWithPositiveStackLevels)
       ELSE Outcome("throw", "Did not find appropiate stacking layer")

----------------------------------------------------------------------------
(* Array.prototype.sort with the z-index comparator, and the re-append     *)

\* dataset.zIndex of a child: absent (undefined) or a string.
NoZIndex == [has |-> FALSE, str |-> <<>>]
ZIndexTag(str) == [has |-> TRUE, str |-> str]

\* !zIndexA: the attribute is absent or the empty string.
Falsy(tag) == ~tag.has \/ tag.str = <<>>

\* The comparator with its operands exchanged.
DifferenceSwapped(x, y) ==
    IF x.kind = "nan" \/ y.kind = "nan" THEN 0 ELSE y.val - x.val

\* The difference the comparator returns, where a NaN operand gives NaN,
\* which sort reads as +0.
Difference(x, y) ==
    IF x.kind = "nan" \/ y.kind = "nan" THEN 0 ELSE x.val - y.val

\* The comparator's result once it does not throw:
\* parseInt(zIndexA, 10) - parseInt(zIndexB, 10).
Compare(a, b) == Difference(parseInt(a.zIndex.str), parseInt(b.zIndex.str))

\* Whether the comparator is a consistent comparator for these values
\* (ECMAScript, Array.prototype.sort): =, < and > are transitive.
ConsistentComparator(children) ==
    LET key == [i \in 1..Len(children) |-> parseInt(children[i].zIndex.str)]
    IN \A i, j, k \in 1..Len(children) :
        LET ab == Difference(key[i], key[j])
            bc == Difference(key[j], key[k])
            ac == Difference(key[i], key[k])
        IN /\ (ab = 0 /\ bc = 0) => ac = 0
           /\ (ab < 0 /\ bc < 0) => ac < 0
           /\ (ab > 0 /\ bc > 0) => ac > 0

\* x put after the last element of the sorted sequence that is not greater.
RECURSIVE InsertSorted(_, _)
InsertSorted(sorted, x) ==
    IF sorted = <<>> THEN <<x>>
    ELSE LET last == sorted[Len(sorted)]
         IN IF Compare(last, x) > 0
            THEN Append(InsertSorted(SubSeq(sorted, 1, Len(sorted) - 1), x), last)
            ELSE Append(sorted, x)

\* The order a stable sort gives under a consistent comparator.
RECURSIVE StableSort(_)
StableSort(children) ==
    IF children = <<>> THEN <<>>
    ELSE InsertSorted(StableSort(SubSeq(children, 1, Len(children) - 1)),
                      children[Len(children)])

Orderings(children) ==
    LET n == Len(children)
    IN { [i \in 1..n |-> children[p[i]]] :
           p \in { q \in [1..n -> 1..n] : \A i, j \in 1..n : q[i] = q[j] => i = j } }

\* The arrays [...parent.children].sort(comparator) can produce when the
\* comparator does not throw: the stable sorted order when the comparator is
\* consistent, an implementation-defined order of the same elements otherwise.
SortedArrays(children) ==
    IF ConsistentComparator(children)
    THEN {StableSort(children)}
    ELSE Orderings(children)

\* parent.append(child) for a child of parent: the child moves to the end.
AppendChild(children, child) ==
    Append(SelectSeq(children, LAMBDA c : c # child), child)

\* for (const child of sorted) parent.append(child)
RECURSIVE AppendAll(_, _)
AppendAll(children, sorted) ==
    IF sorted = <<>> THEN children
    ELSE AppendAll(AppendChild(children, Head(sorted)), Tail(sorted))

\* The comparator throws on the first pair with an absent tag; a sort of two
\* or more elements compares every element at least once, a sort of fewer
\* than two never calls the comparator.
ComparatorThrows(children) ==
    Len(children) >= 2 /\ \E i \in 1..Len(children) : Falsy(children[i].zIndex)

\* sortChildrenByZIndex sorting the live child list in place: when the
\* comparator throws, the children before the first untagged one are already
\* in sorted order.
sortChildrenByZIndexInPlace(children) ==
    IF ComparatorThrows(children)
    THEN LET bad == CHOOSE i \in 1..Len(children) :
                       /\ Falsy(children[i].zIndex)
                       /\ \A j \in 1..(i - 1) : ~Falsy(children[j].zIndex)
         IN { [kind |-> "throw",
               children |-> StableSort(SubSeq(children, 1, bad - 1))
                            \o SubSeq(children, bad, Len(children))] }
    ELSE { [kind |-> "return", children |-> AppendAll(children, sorted)] :
             sorted \in SortedArrays(children) }

\* The outcomes of sortChildrenByZIndex(parent) on a parent with these children.
sortChildrenByZIndex(children) ==
    IF ComparatorThrows(children)
    THEN { [kind |-> "throw", children |-> children] }
    ELSE { [kind |-> "return", children |-> AppendAll(children, sorted)] :
             sorted \in SortedArrays(children) }

\* sortStackingLayerChildren handing the stack-level-zero layer to the second
\* sort.
sortStackingLayerChildrenOfZeroLayer(stackingLayers) ==
    LET neg == childStackingContextsWithNegativeStackLevels
        pos == childStackingContextsWithStackLevelZeroAndPositionedDescendantsWithStackLevelZero
    IN UNION {
         IF first.kind = "throw"
         THEN { [kind |-> "throw", parent |-> neg,
                 layers |-> [stackingLayers EXCEPT ![neg] = first.children]] }
         ELSE { [kind |-> second.kind,
                 parent |-> IF second.kind = "throw" THEN pos ELSE "",
                 layers |-> [stackingLayers EXCEPT ![neg] = first.children,
                                                   ![pos] = second.children]] :
                  second \in sortChildrenByZIndex(stackingLayers[pos]) } :
         first \in sortChildrenByZIndex(stackingLayers[neg]) }

\* The outcomes of sortStackingLayerChildren(stackingLayers): the layer set
\* left behind, and the layer whose sort threw, if one did.
sortStackingLayerChildren(stackingLayers) ==
    LET neg == childStackingContextsWithNegativeStackLevels
        pos == childStackingContextsWithPositiveStackLevels
    IN UNION {
         IF first.kind = "throw"
         THEN { [kind |-> "throw", parent |-> neg,
                 layers |-> [stackingLayers EXCEPT ![neg] = first.children]] }
         ELSE { [kind |-> second.kind,
                 parent |-> IF second.kind = "throw" THEN pos ELSE "",
                 layers |-> [stackingLayers EXCEPT ![neg] = first.children,
                                                   ![pos] = second.children]] :
                  second \in sortChildrenByZIndex(stackingLayers[pos]) } :
         first \in sortChildrenByZIndex(stackingLayers[neg]) }

----------------------------------------------------------------------------
(* The nodes the predicate and the classifier are applied to               *)

Auto == <<"a", "u", "t", "o">>

Positions == {"static", "relative", "absolute", "fixed", "sticky"}
ZIndexValues == {Auto, <<"-", "1">>, <<"0">>, <<"1">>}
ParentElements == {NoParent, "block", "flex", "grid"}
Displays == {"block", "inline", "inline-block"}
Floats == {"none", "left"}

\* will-change as the style declaration serialises it: CSS property names.
\* A name in the spelling of the script property is an identifier like any
\* other custom identifier.
WillChangeValues ==
    { <<>>,
      <<"scroll-position">>,
      <<"clip-path">>, <<"contain">>, <<"filter">>, <<"isolation">>, <<"mask">>,
      <<"mask-border">>, <<"mask-image">>, <<"mix-blend-mode">>, <<"opacity">>,
      <<"perspective">>, <<"position">>, <<"transform">>,
      <<"-webkit-overflow-scrolling">>, <<"z-index">>,
      <<"zIndex">>,
      <<"top", ",", " ", "opacity">>,
      <<"transform", ",", " ", "top">>,
      <<"top", " ", ",", "left">> }

TriggerProperties ==
    << "opacity", "mixBlendMode", "transform", "filter", "perspective",
       "clipPath", "mask", "maskImage", "maskBorder", "isolation",
       "webkitOverflowScrolling", "contain", "willChange" >>

\* The values of a property other than its initial value.
OtherValues(property) ==
    CASE property = "opacity" -> {<<"0", ".", "5">>, <<"0">>}
      [] property = "mixBlendMode" -> {"multiply"}
      [] property = "transform" -> {"matrix(1, 0, 0, 1, 0, 0)"}
      [] property = "filter" -> {"blur(1px)"}
      [] property = "perspective" -> {"100px"}
      [] property = "clipPath" -> {"circle(50%)"}
      [] property = "mask" -> {"url(#m)"}
      [] property = "maskImage" -> {"url(#m)"}
      [] property = "maskBorder" -> {"url(#m)"}
      [] property = "isolation" -> {"isolate"}
      [] property = "webkitOverflowScrolling" -> {"touch"}
      [] property = "contain" -> {"layout", "paint", "strict", "content", "size"}
      [] property = "willChange" -> WillChangeValues

\* The styles that differ from base in at most k of the given properties.
RECURSIVE Overrides(_, _, _)
Overrides(base, properties, k) ==
    IF properties = <<>> \/ k = 0 THEN {base}
    ELSE Overrides(base, Tail(properties), k)
         \cup UNION { Overrides([base EXCEPT ![Head(properties)] = v],
                                Tail(properties), k - 1) :
                        v \in OtherValues(Head(properties)) }

\* The computed styles of the elements: every position, z-index, display and
\* float, with at most MaxTriggers of the trigger properties set.
StylesWith(p, z, d, f) ==
    Overrides([DefaultStyles EXCEPT !.position = p, !.zIndex = z,
                                    !.display = d, !.float = f],
              TriggerProperties, MaxTriggers)

DefaultElement ==
    [isElement |-> TRUE, hasDefaultView |-> TRUE, parentElement |-> "block",
     styles |-> DefaultStyles]

\* An element of a document with a view.
IsStyledElement(node) ==
    \E p \in Positions, z \in ZIndexValues, d \in Displays, f \in Floats,
       pe \in ParentElements :
        \E st \in StylesWith(p, z, d, f) :
            node = [isElement |-> TRUE, hasDefaultView |-> TRUE,
                    parentElement |-> pe, styles |-> st]

\* A text node, or a node of a document without a view.
IsOtherNode(node) ==
    \E e, v \in BOOLEAN :
        /\ ~(e /\ v)
        /\ node = [DefaultElement EXCEPT !.isElement = e, !.hasDefaultView = v]

NotCalled == Outcome("none", "")

EmptyLayers == [name \in {StackingLayers[i] : i \in 1..7} |-> <<>>]

NotSorting == [call |-> "none", parent |-> "", kind |-> "none"]

Init ==
    /\ IsStyledElement(el) \/ IsOtherNode(el)
    /\ esc = NotCalled
    /\ layer = NotCalled
    /\ layers = EmptyLayers
    /\ before = EmptyLayers
    /\ sorting = NotSorting

EstablishesStackingContext ==
    /\ esc.kind = "none"
    /\ esc' = establishesStackingContext(el)
    /\ UNCHANGED <<el, layer, layers, before, sorting>>

\* The parameter is an Element.
DetermineStackingLayer ==
    /\ layer.kind = "none"
    /\ el.isElement
    /\ layer' = determineStackingLayer(el)
    /\ UNCHANGED <<el, esc, layers, before, sorting>>

Next == EstablishesStackingContext \/ DetermineStackingLayer

Spec == Init /\ [][Next]_vars

----------------------------------------------------------------------------
(* The layers of one stacking context: population, then the z-index sort   *)

LayerNames == {StackingLayers[i] : i \in 1..7}

SortedLayerNames ==
    {childStackingContextsWithNegativeStackLevels,
     childStackingContextsWithPositiveStackLevels}

\* The data-z-index values children are given: absent, "auto" (which does not
\* parse to a number) and integers.
ZIndexTags ==
    { NoZIndex, ZIndexTag(Auto), ZIndexTag(<<"-", "3">>),
      ZIndexTag(<<"-", "2">>), ZIndexTag(<<"-", "1">>) }

\* Outside the two sorted layers no code reads the tag; two integer values are
\* enough to tell the children of such a layer apart by their tag.
TagsOf(name) ==
    IF name \in SortedLayerNames THEN ZIndexTags
    ELSE {ZIndexTag(<<"-", "2">>), ZIndexTag(<<"-", "1">>)}

RECURSIVE SumLen(_, _)
SumLen(ls, i) == IF i = 0 THEN 0 ELSE Len(ls[StackingLayers[i]]) + SumLen(ls, i - 1)

TotalChildren(ls) == SumLen(ls, 7)

SortInit ==
    /\ el = DefaultElement
    /\ esc = NotCalled
    /\ layer = NotCalled
    /\ layers = EmptyLayers
    /\ before = EmptyLayers
    /\ sorting = NotSorting

\* The tree walk appends the next child of the context to a layer (layer.append).
\* A child is identified by its layer and the position it was appended at.
AppendToLayer ==
    /\ sorting.call = "none"
    /\ TotalChildren(layers) < MaxChildren
    /\ \E name \in LayerNames :
         \E tag \in TagsOf(name) :
            /\ layers' = [layers EXCEPT ![name] =
                             Append(@, [id |-> Len(@) + 1, zIndex |-> tag])]
            /\ before' = layers'
    /\ UNCHANGED <<el, esc, layer, sorting>>

SortStackingLayerChildren ==
    /\ sorting.call = "none"
    /\ \E out \in sortStackingLayerChildren(layers) :
         /\ layers' = out.layers
         /\ sorting' = [call |-> "sortStackingLayerChildren",
                        parent |-> out.parent, kind |-> out.kind]
    /\ before' = layers
    /\ UNCHANGED <<el, esc, layer>>

SortNext == AppendToLayer \/ SortStackingLayerChildren

SortSpec == SortInit /\ [][SortNext]_vars

----------------------------------------------------------------------------
(* Claims about establishesStackingContext and determineStackingLayer      *)
(* (specification Spec)                                                    *)

\* The fourteen properties of the will-change rule, by their CSS names.
TriggerPropertyNames ==
    { "clip-path", "contain", "filter", "isolation", "mask", "mask-border",
      "mask-image", "mix-blend-mode", "opacity", "perspective", "position",
      "transform", "-webkit-overflow-scrolling", "z-index" }

\* The names of a comma-separated will-change list.
WillChangeNames(willChange) ==
    LET parts == Split(willChange, <<>>)
    IN { Trim(parts[i])[1] : i \in { j \in 1..Len(parts) : Len(Trim(parts[j])) = 1 } }

\* The list names a trigger property, by its CSS name.
NamesTriggerProperty(willChange) ==
    WillChangeNames(willChange) \cap TriggerPropertyNames # {}

\* The list names no trigger property, neither by its CSS name nor by the
\* name of its script property.
NamesNoTriggerProperty(willChange) ==
    WillChangeNames(willChange) \cap
        (TriggerPropertyNames \cup stackingContextEstablishingProperties) = {}

StyledElement == el.isElement /\ el.hasDefaultView

HasZIndex == el.styles.zIndex # Auto

\* One of the style conditions of the stacking predicate holds for el.
StyleTriggerHolds ==
    \/ el.styles.position \in {"absolute", "relative"} /\ HasZIndex
    \/ el.styles.position \in {"fixed", "sticky"}
    \/ el.parentElement \in {"flex", "grid"} /\ HasZIndex
    \/ el.styles.opacity # <<"1">>
    \/ el.styles.mixBlendMode # "normal"
    \/ \E property \in {"transform", "filter", "perspective", "clipPath", "mask",
                        "maskImage", "maskBorder"} : el.styles[property] # "none"
    \/ el.styles.isolation = "isolate"
    \/ el.styles.webkitOverflowScrolling = "touch"
    \/ el.styles.contain \in {"layout", "paint", "strict", "content"}

\* C1: for an element of a document with a view whose will-change list names
\* no trigger property, establishesStackingContext returns true exactly when
\* one of the style conditions holds (so opacity 0.5 gives true whatever the
\* position and z-index, and an element with none of them gives false).
C1_EstablishesIffStyleTrigger ==
    (esc.kind # "none" /\ StyledElement /\ NamesNoTriggerProperty(el.styles.willChange))
        => /\ esc.kind = "return"
           /\ esc.value = "true" <=> StyleTriggerHolds

C1_Witness ==
    /\ esc = Outcome("return", "true")
    /\ StyledElement
    /\ el.styles.opacity = <<"0", ".", "5">>
    /\ el.styles.position = "static"
    /\ el.styles.zIndex = Auto
    /\ el.styles.willChange = <<"auto">>

\* C2: for an element whose will-change list names one of the fourteen trigger
\* properties, at any position of the list, establishesStackingContext
\* returns true.
C2_WillChangeTriggerGivesTrue ==
    (esc.kind # "none" /\ StyledElement /\ NamesTriggerProperty(el.styles.willChange))
        => esc = Outcome("return", "true")

\* position: relative, z-index: auto, every other property at its initial
\* value, on an element with a parent.
ScenarioA ==
    /\ StyledElement
    /\ el.parentElement # NoParent
    /\ \E d \in Displays :
         el.styles = [DefaultStyles EXCEPT !.position = "relative", !.display = d]

ZIndexNumber == parseInt(el.styles.zIndex).val
InFlow == isInFlow(el, el.styles)
Inline == isInline(el.styles)
Positioned == isPositioned(el.styles)
Floated == el.styles.float # "none"
Establishes == establishesStackingContext(el) = Outcome("return", "true")

\* The layer of the first of the six rules, as claimed, that matches el, or
\* the classification error when none does.
ClaimedLayer ==
    IF HasZIndex /\ ZIndexNumber < 0 /\ Establishes
    THEN Outcome("return", childStackingContextsWithNegativeStackLevels)
    ELSE IF InFlow /\ ~Inline /\ ~Positioned
    THEN Outcome("return", inFlowNonInlineNonPositionedDescendants)
    ELSE IF ~Positioned /\ Floated
    THEN Outcome("return", nonPositionedFloats)
    ELSE IF InFlow /\ Inline /\ ~Positioned
    THEN Outcome("return", inFlowInlineLevelNonPositionedDescendants)
    ELSE IF ((HasZIndex /\ ZIndexNumber = 0) \/ (~HasZIndex /\ Positioned))
            /\ (Positioned \/ Establishes)
    THEN Outcome("return",
             childStackingContextsWithStackLevelZeroAndPositionedDescendantsWithStackLevelZero)
    ELSE IF HasZIndex /\ ZIndexNumber > 0 /\ Establishes
    THEN Outcome("return", childStackingContextsWithPositiveStackLevels)
    ELSE Outcome("throw", "Did not find appropiate stacking layer")

\* C4: determineStackingLayer returns the layer of the first matching rule
\* of the six, where rule 5 takes z-index 0 and also z-index auto on a
\* positioned element, and raises the classification error exactly when no
\* rule matches.
C4_FirstMatchingRule ==
    (layer.kind # "none" /\ StyledElement) => layer = ClaimedLayer

\* C5: an element that establishes a stacking context is placed in layer 2
\* (negative z-index), layer 6 (stack level 0) or layer 7 (positive z-index),
\* never in layer 3, 4 or 5.
C5_ContextGoesToLayer267 ==
    (layer.kind = "return" /\ StyledElement /\ Establishes) =>
        layer = Outcome("return",
                    IF HasZIndex /\ ZIndexNumber < 0
                    THEN childStackingContextsWithNegativeStackLevels
                    ELSE IF HasZIndex /\ ZIndexNumber > 0
                    THEN childStackingContextsWithPositiveStackLevels
                    ELSE childStackingContextsWithStackLevelZeroAndPositionedDescendantsWithStackLevelZero)

----------------------------------------------------------------------------
(* Claims about sortChildrenByZIndex and sortStackingLayerChildren         *)
(* (specification SortSpec)                                                *)

Negative == childStackingContextsWithNegativeStackLevels
Positive == childStackingContextsWithPositiveStackLevels

\* The string is an integer literal: an optional minus sign, then digits only.
IsIntegerString(str) ==
    LET digits == IF str # <<>> /\ Head(str) = "-" THEN Tail(str) ELSE str
    IN digits # <<>> /\ \A i \in 1..Len(digits) : digits[i] \in DigitChars

HasIntegerTag(child) == child.zIndex.has /\ IsIntegerString(child.zIndex.str)

\* The attribute is present and its value parses to a number.
HasParseableTag(child) ==
    child.zIndex.has /\ parseInt(child.zIndex.str).kind = "num"

TagValue(child) == parseInt(child.zIndex.str).val

AllIntegerTags(children) ==
    \A i \in 1..Len(children) : HasIntegerTag(children[i])

NonDecreasing(children) ==
    \A i, j \in 1..Len(children) :
        i < j => TagValue(children[i]) <= TagValue(children[j])

\* The same children, none lost and none duplicated.
SameChildren(now, old) ==
    /\ Len(now) = Len(old)
    /\ {now[i] : i \in 1..Len(now)} = {old[i] : i \in 1..Len(old)}
    /\ \A i, j \in 1..Len(now) : now[i] = now[j] => i = j

Called == sorting.call = "sortStackingLayerChildren"

TagsIn(children) == [i \in 1..Len(children) |-> children[i].zIndex.str]

\* C6: when every child of layers 2 and 7 carries an integer tag,
\* sortStackingLayerChildren leaves each of the two layers in non-decreasing
\* numeric z-index order, holding exactly the children it held before.
C6_SortedByNumericZIndex ==
    (Called /\ AllIntegerTags(before[Negative]) /\ AllIntegerTags(before[Positive]))
        => /\ sorting.kind = "return"
           /\ \A name \in SortedLayerNames :
                /\ NonDecreasing(layers[name])
                /\ SameChildren(layers[name], before[name])

C6_Witness ==
    /\ Called
    /\ sorting.kind = "return"
    /\ TagsIn(before[Negative]) = << <<"-", "3">>, <<"-", "1">>, <<"-", "2">> >>
    /\ TagsIn(layers[Negative]) = << <<"-", "3">>, <<"-", "2">>, <<"-", "1">> >>
    /\ Len(before[Positive]) = 1

\* Position of the child in the layer.
IndexOf(children, child) == CHOOSE i \in 1..Len(children) : children[i] = child

\* C7: after the sort of layers 2 and 7, two children of one layer with equal
\* numeric z-index are in the order they were in before, whatever the layer
\* holds.
C7_SortIsStable ==
    (Called /\ sorting.kind = "return") =>
        \A name \in SortedLayerNames :
            \A i, j \in 1..Len(before[name]) :
                LET a == before[name][i]
                    b == before[name][j]
                IN (i < j /\ HasParseableTag(a) /\ HasParseableTag(b)
                      /\ TagValue(a) = TagValue(b))
                     => IndexOf(layers[name], a) < IndexOf(layers[name], b)

\* C8: when layer 2 or layer 7 holds a child without tag, or with a tag that
\* does not parse to an integer, sortStackingLayerChildren fails.
C8_MissingSortKeyIsFatal ==
    (Called /\ \E name \in SortedLayerNames :
                  \E i \in 1..Len(before[name]) : ~HasParseableTag(before[name][i]))
        => sorting.kind = "throw"

\* C9: sortStackingLayerChildren, whether it returns or fails, leaves layers
\* 1, 3, 4, 5 and 6 with the same children in the same order.
C9_OtherLayersUnchanged ==
    Called => \A name \in LayerNames \ SortedLayerNames : layers[name] = before[name]

C9_Witness ==
    /\ Called
    /\ layers[Negative] # before[Negative]
    /\ TagsIn(layers[childStackingContextsWithStackLevelZeroAndPositionedDescendantsWithStackLevelZero])
          = << <<"-", "1">>, <<"-", "2">> >>

\* C10: when sortChildrenByZIndex fails, the layer it was called on holds the
\* children it held before the call, in the same order.
C10_FailedSortLeavesLayerUnchanged ==
    (Called /\ sorting.kind = "throw") =>
        layers[sorting.parent] = before[sorting.parent]

C10_Witness ==
    /\ Called
    /\ sorting.kind = "throw"
    /\ sorting.parent = Positive
    /\ Len(before[Positive]) = 3
    /\ TagsIn(before[Positive]) = << <<"-", "1">>, <<"-", "2">>, <<>> >>
    /\ layers[Positive] = before[Positive]

====
